---- MODULE Spec2Model ----
(***************************************************************************)
(* Feed controllers of the seedit profile views.                           *)
(*   src/src/views/author/author.tsx    Author (remote author feed)        *)
(*   src/src/views/profile/profile.tsx  Overview, Comments, Submitted,     *)
(*                                      VotedComments, HiddenComments      *)
(* One feed component is mounted at a time.  Every action is one event of  *)
(* the UI event loop (mount, data arrival, user selection, scroll) together*)
(* with the render and the effects that the event triggers.                *)
(***************************************************************************)
EXTENDS Integers, Sequences, FiniteSets, TLC

(* ------------------------------ bounds --------------------------------- *)
\* longest raw comment collection
MaxItems == 3
\* timestamps are 1..MaxTs
MaxTs == 2
\* longest vote collection
MaxVotes == 25
\* votes after the first VotePeriod repeat the (vote, timestamp) of the vote
\* VotePeriod places earlier
VotePeriod == 3
\* largest number of blocked cids
MaxHidden == 25
\* longest log of redirect requests
MaxRedirects == 2
\* largest number of visible ranges in a snapshot
MaxRanges == 1
\* largest scroll offset in a snapshot
MaxScrollTop == 1
\* longest console log of one feed instance
MaxLog == 3
\* largest number of reached-end notifications to one feed instance
MaxLoads == 2

(* ------------------------- program constants --------------------------- *)
pageSize == 10
sortTypes == <<"new", "old">>

(* ------------------------------ values --------------------------------- *)
\* JavaScript undefined (a missing route parameter, a missing hook field)
Undefined == "<undefined>"
\* an undefined element of authorComments
UndefinedComment == [cid |-> 0, parentCid |-> Undefined, timestamp |-> 0]

Errors == {"E1", "E2"}
Views == {"all", "comments", "submitted"}
LocalFeeds == {"Overview", "Comments", "Submitted"}
CommentFeeds == {"Author"} \cup LocalFeeds
GateFeeds == CommentFeeds \cup {"VotedComments"}
PagedFeeds == {"VotedComments", "HiddenComments"}

Min(a, b) == IF a < b THEN a ELSE b
Max(a, b) == IF a > b THEN a ELSE b

(* ----------------------- JavaScript array helpers ---------------------- *)
\* a relative index of Array.prototype.slice: negative counts from the end
RelativeIndex(i, len) == IF i < 0 THEN Max(len + i, 0) ELSE Min(i, len)

\* Array.prototype.slice(from, to): 0-based, to excluded
Slice(s, from, to) ==
  LET k == RelativeIndex(from, Len(s))
      final == RelativeIndex(to, Len(s))
  IN IF final <= k THEN <<>> ELSE SubSeq(s, k + 1, final)

\* the comparator without the sort mode: always newest first
CompareNewOnly(a, b, st) == b.timestamp - a.timestamp

\* the comparator (a, b) => sortType === 'new' ? b.timestamp - a.timestamp
\*                                             : a.timestamp - b.timestamp
CompareNewOld(a, b, st) ==
  IF st = "new" THEN b.timestamp - a.timestamp ELSE a.timestamp - b.timestamp

\* an insertion that puts x in front of the elements it ties with
InsertBeforeTies(x, s, st) ==
  LET k == Cardinality({i \in 1..Len(s) : CompareNewOld(s[i], x, st) < 0})
  IN SubSeq(s, 1, k) \o <<x>> \o SubSeq(s, k + 1, Len(s))

\* Array.prototype.sort is stable: x is inserted into the sorted sequence s
\* behind every element that does not compare greater than it (these elements
\* are a prefix of s, because s is sorted)
InsertSorted(x, s, st) ==
  LET k == Cardinality({i \in 1..Len(s) : CompareNewOld(s[i], x, st) <= 0})
  IN SubSeq(s, 1, k) \o <<x>> \o SubSeq(s, k + 1, Len(s))

\* the first n elements of s, sorted (the sorted prefix is bound to a value
\* before the next element is inserted)
RECURSIVE SortPrefix(_, _, _)
SortPrefix(s, n, st) ==
  IF n = 0 THEN <<>>
  ELSE CHOOSE r \in {InsertSorted(s[n], sorted, st) : sorted \in {SortPrefix(s, n - 1, st)}} : TRUE

SortByTimestamp(s, st) ==
  CHOOSE r \in {SortPrefix(v, Len(v), st) : v \in {s}} : TRUE

(* --------------------------- author.tsx -------------------------------- *)
\* authorComments?.filter((comment) => comment && comment.parentCid) || []
AuthorReplyComments(cs) ==
  SelectSeq(cs, LAMBDA c : c # UndefinedComment /\ c.parentCid # Undefined)

\* the posts-only filter without its test of the parent
AuthorPostCommentsKeepsReplies(cs) == SelectSeq(cs, LAMBDA c : c # UndefinedComment)

\* authorComments?.filter((comment) => comment && !comment.parentCid) || []
AuthorPostComments(cs) ==
  SelectSeq(cs, LAMBDA c : c # UndefinedComment /\ c.parentCid = Undefined)

\* virtuosoData, selected by the route view
VirtuosoData(v, cs) ==
  IF v = "comments" THEN AuthorReplyComments(cs)
  ELSE IF v = "submitted" THEN AuthorPostComments(cs)
  ELSE cs

\* AuthorGate without the test for an error
AuthorGateWithoutError(prev, err, len) ==
  IF len = 0 THEN TRUE
  ELSE IF len > 0 THEN FALSE
  ELSE prev

\* AuthorGate without the test for an empty virtuosoData
AuthorGateIgnoresCount(prev, err, len) ==
  IF err # Undefined THEN TRUE
  ELSE IF len > 0 THEN FALSE
  ELSE prev

\* the effect on [error, virtuosoData] that sets shouldShowErrorToUser
AuthorGate(prev, err, len) ==
  IF err # Undefined /\ len = 0 THEN TRUE
  ELSE IF len > 0 THEN FALSE
  ELSE prev

\* the log effect with the reference to the previous message ignored
AuthorLogsEveryError(prev, err) == err # Undefined

\* the effect on [error]: error && error.message !== prevErrorMessageRef.current
AuthorLogsError(prev, err) == err # Undefined /\ err # prev

\* endReached={loadMore} with the notification dropped
EndReachedHandlerIdle(calls) == calls

\* endReached={loadMore}: a reached-end notification is one call of loadMore
EndReachedHandler(calls) == calls + 1

\* Footer: the loading indicator
AuthorFooterShown(hm) == hm

\* virtuosoData?.length === 0 && !hasMore
AuthorNothingFound(len, hm) == len = 0 /\ ~hm

(* --------------------------- profile.tsx ------------------------------- *)
\* PaginationControls with 'previous' rendered whenever the controls are
PreviousOfferedWithControls(page, hm) == hm \/ page > 1

\* PaginationControls: the 'previous' button is rendered
PreviousOffered(page, hm) == (hm \/ page > 1) /\ page > 1

\* PaginationControls: the 'next' button is rendered
NextOffered(page, hm) == (hm \/ page > 1) /\ hm

\* Overview: [...accountComments].sort(...)
OverviewSortedComments(cs, st) == SortByTimestamp(cs, st)

\* Overview sorting accountComments itself: accountComments.sort(...)
OverviewSortsInput(cs, st) == SortByTimestamp(cs, st)

\* Overview: accountComments after the useMemo ran. Array.prototype.sort
\* reorders the array it is called on; that array is the copy [...accountComments]
OverviewInputAfterSort(cs, st) == cs

\* OverviewGate without the else-if branch that hides the error
OverviewGateNeverHides(prev, err, len) ==
  IF err # Undefined /\ len = 0 THEN TRUE
  ELSE prev

\* Overview: the effect on [error, sortedComments]
OverviewGate(prev, err, len) ==
  IF err # Undefined /\ len = 0 THEN TRUE
  ELSE IF len > 0 THEN FALSE
  ELSE prev

\* Comments: accountComments?.filter((comment) => comment.parentCid) || []
ReplyComments(cs) == SelectSeq(cs, LAMBDA c : c.parentCid # Undefined)

\* Comments: [...replyComments].sort(...)
CommentsSortedComments(cs, st) == SortByTimestamp(ReplyComments(cs), st)

\* Comments: accountComments after the two useMemos ran (filter returns a new
\* array, the sort reorders a copy of it)
CommentsInputAfterSort(cs, st) == cs

\* Comments: the effect on [error, sortedComments]
CommentsGate(prev, err, len) ==
  IF err # Undefined /\ len = 0 THEN TRUE
  ELSE IF len > 0 THEN FALSE
  ELSE prev

\* Submitted: accountComments?.filter((comment) => !comment.parentCid) || []
PostComments(cs) == SelectSeq(cs, LAMBDA c : c.parentCid = Undefined)

\* Submitted: [...postComments].sort(...)
SubmittedSortedComments(cs, st) == SortByTimestamp(PostComments(cs), st)

\* Submitted: accountComments after the two useMemos ran
SubmittedInputAfterSort(cs, st) == cs

\* SubmittedGate as a plain derivation of (error, count), without memory
SubmittedGateNoMemory(prev, err, len) == err # Undefined /\ len = 0

\* Submitted: the effect on [error, sortedComments]
SubmittedGate(prev, err, len) ==
  IF err # Undefined /\ len = 0 THEN TRUE
  ELSE IF len > 0 THEN FALSE
  ELSE prev

\* Overview, Comments, Submitted, VotedComments: the effect on [error],
\* error && error.message !== prevErrorMessageRef.current
ProfileLogsError(prev, err) == err # Undefined /\ err # prev

\* Overview, Comments, Submitted: sortedComments.length === 0 ? nothing_found : list
LocalNothingFound(len) == len = 0

\* VotedCommentCids without the filter by vote sign
VotedCommentCidsOfAllVotes(votes, vt, st) ==
  LET Cids(sortedVotes) == [i \in 1..Len(sortedVotes) |-> sortedVotes[i].commentCid]
  IN CHOOSE r \in {Cids(sortedVotes) : sortedVotes \in {SortByTimestamp(votes, st)}} : TRUE

\* VotedComments: filter by vote sign, sort by vote timestamp, map to commentCid
VotedCommentCids(votes, vt, st) ==
  LET filteredVotes == SelectSeq(votes, LAMBDA v : v.vote = vt)
      Cids(sortedVotes) == [i \in 1..Len(sortedVotes) |-> sortedVotes[i].commentCid]
  IN CHOOSE r \in {Cids(sortedVotes) : sortedVotes \in {SortByTimestamp(filteredVotes, st)}} : TRUE

\* VotedComments: accountVotes after the useMemo ran (filteredVotes.sort
\* reorders the array that accountVotes.filter returned)
VotedInputAfterSort(votes, vt, st) == votes

\* PaginatedCids with the window starting one item late
PaginatedCidsOffByOne(cids, page) ==
  Slice(cids, (page - 1) * pageSize + 1, page * pageSize)

\* VotedComments: votedCommentCids.slice((currentPage - 1) * pageSize, currentPage * pageSize)
PaginatedCids(cids, page) == Slice(cids, (page - 1) * pageSize, page * pageSize)

\* VotedComments: currentPage * pageSize < votedCommentCids.length
VotedHasMore(cids, page) == page * pageSize < Len(cids)

\* VotedComments: the effect on [error, paginatedCids, hasMore]
VotedGate(prev, err, len, hm) ==
  IF err # Undefined /\ len = 0 /\ hm THEN TRUE
  ELSE IF len > 0 THEN FALSE
  ELSE prev

\* HiddenComments: allHiddenCids.slice(0, currentPage * pageSize)
HiddenCommentCids(blocked, page) == Slice(blocked, 0, page * pageSize)

\* HiddenComments: Object.keys(account.blockedCids).length > currentPage * pageSize
HiddenHasMore(blocked, page) == Len(blocked) > page * pageSize

\* VotedComments, HiddenComments: paginatedCids.length === 0 ? nothing_found : items
PagedNothingFound(len) == len = 0

(* ------------------------------ state ---------------------------------- *)
VARIABLES
  mounted,                \* the mounted feed component, or "none"
  authorAddress,          \* useParams().authorAddress
  commentCid,             \* useParams().commentCid
  paramsSortType,         \* useParams().sortType
  view,                   \* the author route: "all", "comments", "submitted"
  shortAddress,           \* useAccount()?.shortAddress
  voteType,               \* the voteType prop of VotedComments
  authorComments,         \* useAuthorComments().authorComments
  accountComments,        \* useAccountComments().accountComments
  accountVotes,           \* useAccountVotes().accountVotes
  votedCommentCids,       \* the useMemo on [accountVotes, voteType, sortType]
  blockedCids,            \* Object.keys(account.blockedCids)
  error,                  \* the hook's error: Undefined or its message
  hasMore,                \* the data source's hasMore (read by Author only:
                          \* the local-account feeds take error and
                          \* accountComments from their hook and nothing else)
  lastCommentCid,         \* useAuthorComments().lastCommentCid
  sortType,               \* useState('new') of the local-account feeds
  currentPage,            \* useState(1) of the paged feeds
  shouldShowErrorToUser,  \* the error gate of the mounted feed
  pendingNavigation,      \* the cid of a navigate() call the router has not applied
  authorVirtuosoStates,   \* lastVirtuosoStates of author.tsx
  profileVirtuosoStates,  \* lastVirtuosoStates of profile.tsx
  listeners,              \* the scroll listeners registered on window: the
                          \* component, the key its closure builds, and whether
                          \* its virtuosoRef.current is set
  prevErrorMessageRef,    \* prevErrorMessageRef.current of the mounted feed
  errorLog,               \* the console.log(error) calls of the mounted feed
  loadMoreCalls,          \* the loadMore() calls of the mounted Author
  endReachedCount,        \* history: the reached-end notifications Virtuoso sent
  savedFor,               \* history: per store and key, the subject and the
                          \* sort mode of the feed that wrote the entry
  armed,                  \* history: an evaluation saw error with an empty
                          \* projection and none since saw a non-empty one
  redirects,              \* history: the navigate() calls of the mounted Author
  rerendered,             \* history: Author rendered again with unchanged redirect deps
  lastSnapshot            \* history: the snapshot the last scroll event computed

route == <<authorAddress, commentCid, paramsSortType, view, shortAddress, voteType>>
source == <<authorComments, accountComments, accountVotes, blockedCids, error,
            hasMore, lastCommentCid>>
local == <<sortType, currentPage>>
stores == <<authorVirtuosoStates, profileVirtuosoStates>>
effects == <<shouldShowErrorToUser, pendingNavigation, armed, redirects, rerendered,
             listeners, prevErrorMessageRef, errorLog>>
fetches == <<loadMoreCalls, endReachedCount>>
vars == <<mounted, route, source, votedCommentCids, local, stores, effects, lastSnapshot,
          savedFor, fetches>>

(* ------------------------ viewport snapshots --------------------------- *)
\* getState hands the callback an undefined snapshot
UndefinedSnapshot == [defined |-> FALSE, hasRanges |-> FALSE, ranges |-> <<>>, scrollTop |-> 0]

\* the range lists a snapshot can carry
RangeLists ==
  {[i \in 1..n |-> [startIndex |-> i - 1, endIndex |-> i]] : n \in 0..MaxRanges}

\* the StateSnapshot values getState can hand over: undefined, without a
\* ranges field, or with a (possibly empty) list of ranges
Snapshots ==
  {UndefinedSnapshot}
  \cup {[defined |-> TRUE, hasRanges |-> FALSE, ranges |-> <<>>, scrollTop |-> t] :
          t \in 0..MaxScrollTop}
  \cup {[defined |-> TRUE, hasRanges |-> TRUE, ranges |-> r, scrollTop |-> t] :
          r \in RangeLists, t \in 0..MaxScrollTop}

\* the last step was no scroll event
NoSnapshot == [scrolled |-> FALSE, snapshot |-> UndefinedSnapshot]

\* author.tsx: if (snapshot?.ranges?.length)
AuthorSavesIfRangesField(snap) == snap.defined /\ snap.hasRanges

AuthorSaves(snap) == snap.defined /\ snap.hasRanges /\ Len(snap.ranges) > 0

\* profile.tsx: if (snapshot?.ranges?.length)
ProfileSaves(snap) == snap.defined /\ snap.hasRanges /\ Len(snap.ranges) > 0

\* author.tsx: `${authorAddress ?? ''}${sortType ?? ''}`
AuthorKey(addr, st) ==
  (IF addr = Undefined THEN "" ELSE addr) \o (IF st = Undefined THEN "" ELSE st)

\* String(x) of a string or undefined
JsString(x) == IF x = Undefined THEN "undefined" ELSE x

\* profile.tsx: account?.shortAddress + params.sortType, used as a property
\* key (undefined + undefined is NaN)
ProfileKey(sa, st) ==
  IF sa = Undefined /\ st = Undefined THEN "NaN" ELSE JsString(sa) \o JsString(st)

\* an assignment that replaces the store by the one entry
PutAlone(store, key, snap) == [k \in {key} |-> snap]

\* lastVirtuosoStates[key] = snapshot
Put(store, key, snap) ==
  [k \in DOMAIN store \cup {key} |-> IF k = key THEN snap ELSE store[k]]

\* lastVirtuosoStates?.[key]
Get(store, key) == IF key \in DOMAIN store THEN store[key] ELSE UndefinedSnapshot

\* window.addEventListener('scroll', setLastVirtuosoState)
AddListener(ls, l) == ls \cup {l}

\* an effect cleanup that leaves the listener registered
RemoveListenerKeeps(ls, l) == ls

\* the effect's cleanup: window.removeEventListener('scroll', setLastVirtuosoState)
RemoveListener(ls, l) == ls \ {l}

(* --------------------- what the mounted feed renders -------------------- *)
\* the sequence handed to the renderer
Projection ==
  CASE mounted = "Author" -> VirtuosoData(view, authorComments)
    [] mounted = "Overview" -> OverviewSortedComments(accountComments, sortType)
    [] mounted = "Comments" -> CommentsSortedComments(accountComments, sortType)
    [] mounted = "Submitted" -> SubmittedSortedComments(accountComments, sortType)
    [] mounted = "VotedComments" -> PaginatedCids(votedCommentCids, currentPage)
    [] mounted = "HiddenComments" -> HiddenCommentCids(blockedCids, currentPage)
    [] OTHER -> <<>>

\* hasMore as the paged feeds compute it
PagedHasMore ==
  CASE mounted = "VotedComments" -> VotedHasMore(votedCommentCids, currentPage)
    [] mounted = "HiddenComments" -> HiddenHasMore(blockedCids, currentPage)
    [] OTHER -> FALSE

\* the value of the feed's gate effect
Gate(prev) ==
  CASE mounted = "Author" -> AuthorGate(prev, error, Len(Projection))
    [] mounted = "Overview" -> OverviewGate(prev, error, Len(Projection))
    [] mounted = "Comments" -> CommentsGate(prev, error, Len(Projection))
    [] mounted = "Submitted" -> SubmittedGate(prev, error, Len(Projection))
    [] mounted = "VotedComments" -> VotedGate(prev, error, Len(Projection), PagedHasMore)
    [] OTHER -> FALSE

\* the loading indicator is on screen
LoadingShown == mounted = "Author" /\ AuthorFooterShown(hasMore)

\* the 'nothing found' text is on screen
NothingFoundShown ==
  CASE mounted = "Author" -> AuthorNothingFound(Len(Projection), hasMore)
    [] mounted \in LocalFeeds -> LocalNothingFound(Len(Projection))
    [] mounted \in PagedFeeds -> PagedNothingFound(Len(Projection))
    [] OTHER -> FALSE

(* ------------------- the scroll listener of a feed ---------------------- *)
\* a Virtuoso list is rendered: always by Author, by a local-account feed
\* (inside VirtualizedCommentList) when sortedComments is not empty
HasVirtuoso == mounted = "Author" \/ (mounted \in LocalFeeds /\ Len(Projection) > 0)

\* the component that holds the list, its ref and its scroll listener
Holder == IF mounted = "Author" THEN "Author" ELSE "VirtualizedCommentList"

\* the dependency list of the listener effect
ListenerDeps ==
  IF mounted = "Author" THEN <<authorAddress, paramsSortType>>
                        ELSE <<shortAddress, paramsSortType>>

\* the key under which the feed reads and writes its store
StoreKey ==
  IF mounted = "Author" THEN AuthorKey(authorAddress, paramsSortType)
                        ELSE ProfileKey(shortAddress, paramsSortType)

\* the store of the feed's source file
LastVirtuosoStates ==
  IF mounted = "Author" THEN authorVirtuosoStates ELSE profileVirtuosoStates

\* const lastVirtuosoState = lastVirtuosoStates?.[key]
LastVirtuosoState == Get(LastVirtuosoStates, StoreKey)

\* the listener the effect registers: a closure over the key's parts and the ref
SetLastVirtuosoState == [component |-> Holder, key |-> StoreKey, ref |-> TRUE]

(* ------------------- the redirect effect of Author ---------------------- *)
\* authorAddress && lastCommentCid && commentCid && lastCommentCid !== commentCid
RedirectWanted(addr, last, cid) ==
  addr # Undefined /\ last # Undefined /\ cid # Undefined /\ last # cid

\* `/u/${authorAddress}/c/${lastCommentCid}`
RedirectTarget(addr, last) == "/u/" \o addr \o "/c/" \o last

\* the redirect effect without its dependency list: it runs on every render
RedirectEveryRender(prev, cur) == TRUE

\* the dependency list [authorAddress, lastCommentCid, commentCid, navigate]:
\* the effect runs when an entry differs from the previous render's (navigate
\* is taken to be the same function on every render)
RedirectDepsChanged(prev, cur) == prev # cur

RedirectDeps == <<authorAddress, lastCommentCid, commentCid>>

(* ------------------------- history of the gate ------------------------- *)
\* what the sequence of evaluations so far says about the gate: the latest
\* evaluation that saw an error with an empty projection has not been followed
\* by one that saw a non-empty projection
ArmedAfter(prev) ==
  IF mounted \notin GateFeeds THEN FALSE
  ELSE IF error # Undefined /\ Len(Projection) = 0 THEN TRUE
  ELSE IF Len(Projection) > 0 THEN FALSE
  ELSE prev

\* the subject of the mounted feed and the sort mode it is shown under: the
\* route's sort mode for Author, the dropdown's for the local-account feeds
FeedPair ==
  IF mounted = "Author" THEN <<authorAddress, paramsSortType>>
                        ELSE <<shortAddress, sortType>>

(* ------------------------------ Init ----------------------------------- *)
EmptyStore == [k \in {} |-> NoSnapshot]

Init ==
  /\ mounted = "none"
  /\ authorAddress = Undefined
  /\ commentCid = Undefined
  /\ paramsSortType = Undefined
  /\ view = "all"
  /\ shortAddress = Undefined
  /\ voteType = 1
  /\ authorComments = <<>>
  /\ accountComments = <<>>
  /\ accountVotes = <<>>
  /\ votedCommentCids = <<>>
  /\ blockedCids = <<>>
  /\ error = Undefined
  /\ hasMore = FALSE
  /\ lastCommentCid = Undefined
  /\ sortType = "new"
  /\ currentPage = 1
  /\ shouldShowErrorToUser = FALSE
  /\ pendingNavigation = Undefined
  /\ authorVirtuosoStates = EmptyStore
  /\ profileVirtuosoStates = EmptyStore
  /\ armed = FALSE
  /\ redirects = <<>>
  /\ rerendered = FALSE
  /\ lastSnapshot = NoSnapshot
  /\ listeners = {}
  /\ prevErrorMessageRef = Undefined
  /\ errorLog = <<>>
  /\ loadMoreCalls = 0
  /\ endReachedCount = 0
  /\ savedFor = EmptyStore

(* ------------------- a render and the effects it runs ------------------ *)
\* the listener effect across a render: the cleanup runs when the holder
\* unmounts or the dependencies change, the effect when the holder mounts or
\* the dependencies change; React clears the ref of an unmounted holder
RenderList(isMount) ==
  \E has \in {HasVirtuoso}, deps \in {ListenerDeps}, cur \in {SetLastVirtuosoState},
     ls \in {listeners} :
    LET holderUnmounts == has /\ (isMount \/ ~HasVirtuoso')
        holderMounts == HasVirtuoso' /\ (isMount \/ ~has)
        depsChanged == has /\ HasVirtuoso' /\ ~isMount /\ deps # ListenerDeps'
        removed == IF holderUnmounts \/ depsChanged THEN RemoveListener(ls, cur) ELSE ls
        cleared == IF holderUnmounts THEN {[l EXCEPT !.ref = FALSE] : l \in removed}
                                     ELSE removed
    IN /\ listeners' = IF holderMounts \/ depsChanged
                        THEN AddListener(cleared, SetLastVirtuosoState')
                        ELSE cleared
       /\ savedFor' = savedFor

\* the log effect across a render (it compares with the message it logged
\* last, so running it on every render equals running it on changes of error)
RenderLog(isMount) ==
  \E prev \in {IF isMount THEN Undefined ELSE prevErrorMessageRef},
     log \in {IF isMount THEN <<>> ELSE errorLog} :
    LET logs == /\ mounted' \in GateFeeds
                /\ IF mounted' = "Author" THEN AuthorLogsError(prev, error')
                                          ELSE ProfileLogsError(prev, error')
    IN /\ prevErrorMessageRef' = IF logs THEN error' ELSE prev
       /\ errorLog' = IF logs THEN Append(log, error') ELSE log
       /\ Len(errorLog') <= MaxLog

\* the gate effect (idempotent, so running it on every render equals running
\* it on changes of its dependencies) and Author's redirect effect
RenderGate(isMount, pending) ==
  \E g \in {IF isMount THEN FALSE ELSE shouldShowErrorToUser},
     a \in {IF isMount THEN FALSE ELSE armed},
     log \in {IF isMount THEN <<>> ELSE redirects},
     deps \in {RedirectDeps} :
    LET changed == isMount \/ RedirectDepsChanged(deps, RedirectDeps')
        fire == /\ mounted' = "Author"
                /\ changed
                /\ RedirectWanted(authorAddress', lastCommentCid', commentCid')
    IN /\ shouldShowErrorToUser' = Gate(g)'
       /\ armed' = ArmedAfter(a)'
       /\ redirects' = IF fire
                       THEN Append(log, RedirectTarget(authorAddress', lastCommentCid'))
                       ELSE log
       /\ pendingNavigation' = IF fire THEN lastCommentCid' ELSE pending
       /\ rerendered' = (mounted' = "Author" /\ ~changed)
       /\ Len(redirects') <= MaxRedirects
       /\ lastSnapshot' = NoSnapshot

\* The render that follows an event, with the effects whose dependencies
\* changed.  isMount: the first render of a component (state starts from
\* useState's initial values and every effect runs); pending: the navigation
\* not yet applied by the router after the event.
Render(isMount, pending) ==
  /\ RenderGate(isMount, pending)
  /\ RenderList(isMount)
  /\ RenderLog(isMount)
  /\ loadMoreCalls' = (IF isMount THEN 0 ELSE loadMoreCalls)
  /\ endReachedCount' = (IF isMount THEN 0 ELSE endReachedCount)

(* --------------------------- mount, unmount ---------------------------- *)
MountAuthor(addr, cid, ps, v, e, hm, last) ==
  /\ mounted = "none"
  /\ mounted' = "Author"
  /\ authorAddress' = addr
  /\ commentCid' = cid
  /\ paramsSortType' = ps
  /\ view' = v
  /\ authorComments' = <<>>
  /\ error' = e
  /\ hasMore' = hm
  /\ lastCommentCid' = last
  /\ UNCHANGED <<shortAddress, voteType, accountComments, accountVotes, blockedCids>>
  /\ UNCHANGED <<local, stores>>
  /\ UNCHANGED votedCommentCids
  /\ Render(TRUE, Undefined)

MountLocal(feed, sa, ps, e, hm) ==
  /\ mounted = "none"
  /\ mounted' = feed
  /\ shortAddress' = sa
  /\ paramsSortType' = ps
  /\ accountComments' = <<>>
  /\ error' = e
  /\ hasMore' = hm
  /\ sortType' = "new"
  /\ UNCHANGED <<authorAddress, commentCid, view, voteType>>
  /\ UNCHANGED <<authorComments, accountVotes, blockedCids, lastCommentCid>>
  /\ UNCHANGED <<currentPage, stores>>
  /\ UNCHANGED votedCommentCids
  /\ Render(TRUE, Undefined)

MountVoted(vt, e) ==
  /\ mounted = "none"
  /\ mounted' = "VotedComments"
  /\ voteType' = vt
  /\ accountVotes' = <<>>
  /\ error' = e
  /\ sortType' = "new"
  /\ currentPage' = 1
  /\ UNCHANGED <<authorAddress, commentCid, paramsSortType, view, shortAddress>>
  /\ UNCHANGED <<authorComments, accountComments, blockedCids, hasMore, lastCommentCid>>
  /\ UNCHANGED stores
  /\ votedCommentCids' = VotedCommentCids(accountVotes', voteType', sortType')
  /\ Render(TRUE, Undefined)

MountHidden ==
  /\ mounted = "none"
  /\ mounted' = "HiddenComments"
  /\ blockedCids' = <<>>
  /\ currentPage' = 1
  /\ UNCHANGED <<route, sortType, stores>>
  /\ UNCHANGED <<authorComments, accountComments, accountVotes, error, hasMore, lastCommentCid>>
  /\ UNCHANGED votedCommentCids
  /\ Render(TRUE, Undefined)

\* the component goes away with its state; the stores are module state and stay
Unmount ==
  /\ mounted # "none"
  /\ mounted' = "none"
  /\ authorAddress' = Undefined
  /\ commentCid' = Undefined
  /\ paramsSortType' = Undefined
  /\ view' = "all"
  /\ shortAddress' = Undefined
  /\ voteType' = 1
  /\ authorComments' = <<>>
  /\ accountComments' = <<>>
  /\ accountVotes' = <<>>
  /\ blockedCids' = <<>>
  /\ error' = Undefined
  /\ hasMore' = FALSE
  /\ lastCommentCid' = Undefined
  /\ sortType' = "new"
  /\ currentPage' = 1
  /\ UNCHANGED stores
  /\ votedCommentCids' = <<>>
  /\ Render(TRUE, Undefined)

(* ------------------------- data-source events -------------------------- *)
\* accountComments as the mounted feed's useMemos leave it
AccountCommentsAfterRender(feed, cs, st) ==
  CASE feed = "Overview" -> OverviewInputAfterSort(cs, st)
    [] feed = "Comments" -> CommentsInputAfterSort(cs, st)
    [] feed = "Submitted" -> SubmittedInputAfterSort(cs, st)
    [] OTHER -> cs

\* the comments a collection can receive as its n-th entry
CommentValues(n) ==
  {[cid |-> n, parentCid |-> p, timestamp |-> t] : p \in {Undefined, "p"}, t \in 1..MaxTs}

\* the votes the collection can receive next: free for the first VotePeriod
\* votes, afterwards the (vote, timestamp) of the vote VotePeriod places earlier
VoteValues(votes) ==
  LET n == Len(votes) + 1
  IN {[commentCid |-> n, vote |-> v, timestamp |-> t] : v \in {1, -1}, t \in 1..MaxTs}
     \cap {x \in [commentCid : {n}, vote : {1, -1}, timestamp : 1..MaxTs] :
             n > VotePeriod => /\ x.vote = votes[n - VotePeriod].vote
                               /\ x.timestamp = votes[n - VotePeriod].timestamp}

\* the timestamp of the n-th vote in the specifications that fix it: within
\* each period of VotePeriod votes the timestamps 1..MaxTs are taken in turn
VoteTimestamp(n) == 1 + (((n - 1) % VotePeriod) % MaxTs)

\* useAuthorComments delivers one more comment (entries may be undefined)
AuthorCommentLoaded(c) ==
  /\ mounted = "Author"
  /\ Len(authorComments) < MaxItems
  /\ authorComments' = Append(authorComments, c)
  /\ UNCHANGED <<mounted, route, local, stores>>
  /\ UNCHANGED <<accountComments, accountVotes, blockedCids, error, hasMore, lastCommentCid>>
  /\ UNCHANGED votedCommentCids
  /\ Render(FALSE, pendingNavigation)

\* useAuthorComments replaces the collection by an empty one
AuthorCommentsCleared ==
  /\ mounted = "Author"
  /\ authorComments # <<>>
  /\ authorComments' = <<>>
  /\ UNCHANGED <<mounted, route, local, stores>>
  /\ UNCHANGED <<accountComments, accountVotes, blockedCids, error, hasMore, lastCommentCid>>
  /\ UNCHANGED votedCommentCids
  /\ Render(FALSE, pendingNavigation)

\* useAccountComments delivers one more comment
AccountCommentAdded(c) ==
  /\ mounted \in LocalFeeds
  /\ Len(accountComments) < MaxItems
  /\ accountComments' =
       AccountCommentsAfterRender(mounted, Append(accountComments, c), sortType)
  /\ UNCHANGED <<mounted, route, local, stores>>
  /\ UNCHANGED <<authorComments, accountVotes, blockedCids, error, hasMore, lastCommentCid>>
  /\ UNCHANGED votedCommentCids
  /\ Render(FALSE, pendingNavigation)

\* useAccountComments replaces the collection by an empty one
AccountCommentsCleared ==
  /\ mounted \in LocalFeeds
  /\ accountComments # <<>>
  /\ accountComments' = <<>>
  /\ UNCHANGED <<mounted, route, local, stores>>
  /\ UNCHANGED <<authorComments, accountVotes, blockedCids, error, hasMore, lastCommentCid>>
  /\ UNCHANGED votedCommentCids
  /\ Render(FALSE, pendingNavigation)

\* the hook reports another error, or none
ErrorChanged(e) ==
  /\ mounted \in GateFeeds
  /\ e # error
  /\ error' = e
  /\ UNCHANGED <<mounted, route, local, stores>>
  /\ UNCHANGED <<authorComments, accountComments, accountVotes, blockedCids, hasMore, lastCommentCid>>
  /\ UNCHANGED votedCommentCids
  /\ Render(FALSE, pendingNavigation)

\* the data source of a comment feed reports another hasMore
HasMoreChanged ==
  /\ mounted \in CommentFeeds
  /\ hasMore' = ~hasMore
  /\ UNCHANGED <<mounted, route, local, stores>>
  /\ UNCHANGED <<authorComments, accountComments, accountVotes, blockedCids, error, lastCommentCid>>
  /\ UNCHANGED votedCommentCids
  /\ Render(FALSE, pendingNavigation)

\* useAccountVotes delivers one more vote
VoteAdded(v) ==
  /\ mounted = "VotedComments"
  /\ Len(accountVotes) < MaxVotes
  /\ accountVotes' = VotedInputAfterSort(Append(accountVotes, v), voteType, sortType)
  /\ UNCHANGED <<mounted, route, local, stores>>
  /\ UNCHANGED <<authorComments, accountComments, blockedCids, error, hasMore, lastCommentCid>>
  /\ votedCommentCids' = VotedCommentCids(accountVotes', voteType', sortType')
  /\ Render(FALSE, pendingNavigation)

\* useAccountVotes delivers the collection without its latest vote
VoteRemoved ==
  /\ mounted = "VotedComments"
  /\ accountVotes # <<>>
  /\ accountVotes' = VotedInputAfterSort(SubSeq(accountVotes, 1, Len(accountVotes) - 1),
                                         voteType, sortType)
  /\ UNCHANGED <<mounted, route, local, stores>>
  /\ UNCHANGED <<authorComments, accountComments, blockedCids, error, hasMore, lastCommentCid>>
  /\ votedCommentCids' = VotedCommentCids(accountVotes', voteType', sortType')
  /\ Render(FALSE, pendingNavigation)

\* the account blocks one more cid
CidBlocked ==
  /\ mounted = "HiddenComments"
  /\ Len(blockedCids) < MaxHidden
  /\ blockedCids' = Append(blockedCids, Len(blockedCids) + 1)
  /\ UNCHANGED <<mounted, route, local, stores>>
  /\ UNCHANGED <<authorComments, accountComments, accountVotes, error, hasMore, lastCommentCid>>
  /\ UNCHANGED votedCommentCids
  /\ Render(FALSE, pendingNavigation)

\* the account unblocks its latest blocked cid
CidUnblocked ==
  /\ mounted = "HiddenComments"
  /\ blockedCids # <<>>
  /\ blockedCids' = SubSeq(blockedCids, 1, Len(blockedCids) - 1)
  /\ UNCHANGED <<mounted, route, local, stores>>
  /\ UNCHANGED <<authorComments, accountComments, accountVotes, error, hasMore, lastCommentCid>>
  /\ UNCHANGED votedCommentCids
  /\ Render(FALSE, pendingNavigation)

(* ----------------------------- user events ----------------------------- *)
\* the author route changes between /u/a/c/x, .../comments and .../submitted
ViewChanged(v) ==
  /\ mounted = "Author"
  /\ v # view
  /\ view' = v
  /\ UNCHANGED <<authorAddress, commentCid, paramsSortType, shortAddress, voteType>>
  /\ UNCHANGED <<mounted, source, local, stores>>
  /\ UNCHANGED votedCommentCids
  /\ Render(FALSE, pendingNavigation)

\* SortDropdown.handleSortChange -> onSortChange -> setSortType
SortChanged(st) ==
  /\ mounted \in LocalFeeds \cup {"VotedComments"}
  /\ sortType' = st
  /\ accountComments' = AccountCommentsAfterRender(mounted, accountComments, st)
  /\ accountVotes' = IF mounted = "VotedComments"
                      THEN VotedInputAfterSort(accountVotes, voteType, st)
                      ELSE accountVotes
  /\ UNCHANGED <<authorComments, blockedCids, error, hasMore, lastCommentCid>>
  /\ UNCHANGED <<mounted, route, currentPage, stores>>
  /\ votedCommentCids' = VotedCommentCids(accountVotes', voteType', sortType')
  /\ Render(FALSE, pendingNavigation)

\* PaginationControls: click on 'next'
NextClicked ==
  /\ mounted \in PagedFeeds
  /\ NextOffered(currentPage, PagedHasMore)
  /\ currentPage' = currentPage + 1
  /\ UNCHANGED <<mounted, route, source, sortType, stores>>
  /\ UNCHANGED votedCommentCids
  /\ Render(FALSE, pendingNavigation)

\* PaginationControls: click on 'previous'
PreviousClicked ==
  /\ mounted \in PagedFeeds
  /\ PreviousOffered(currentPage, PagedHasMore)
  /\ currentPage' = currentPage - 1
  /\ UNCHANGED <<mounted, route, source, sortType, stores>>
  /\ UNCHANGED votedCommentCids
  /\ Render(FALSE, pendingNavigation)

(* ---------------------------- specification ---------------------------- *)
\* The feeds with their data sources and user events, on one author route and
\* with one error message.
Next ==
  \/ \E v \in Views, e \in {Undefined, "E1"}, hm \in BOOLEAN :
       MountAuthor("a", "c1", Undefined, v, e, hm, Undefined)
  \/ \E f \in LocalFeeds, e \in {Undefined, "E1"}, hm \in BOOLEAN :
       MountLocal(f, "a", Undefined, e, hm)
  \/ \E vt \in {1, -1}, e \in {Undefined, "E1"} : MountVoted(vt, e)
  \/ MountHidden
  \/ Unmount
  \/ \E c \in CommentValues(Len(authorComments) + 1) \cup {UndefinedComment} :
       AuthorCommentLoaded(c)
  \/ AuthorCommentsCleared
  \/ \E c \in CommentValues(Len(accountComments) + 1) : AccountCommentAdded(c)
  \/ AccountCommentsCleared
  \/ \E e \in {Undefined, "E1"} : ErrorChanged(e)
  \/ HasMoreChanged
  \/ \E v \in VoteValues(accountVotes) :
       v.timestamp = VoteTimestamp(v.commentCid) /\ VoteAdded(v)
  \/ VoteRemoved
  \/ CidBlocked
  \/ CidUnblocked
  \/ \E v \in Views : ViewChanged(v)
  \/ \E i \in 1..Len(sortTypes) : SortChanged(sortTypes[i])
  \/ NextClicked
  \/ PreviousClicked

Spec == Init /\ [][Next]_vars

(* ------------------------ navigation of Author ------------------------- *)
\* useAuthorComments reports another lastCommentCid
LastCommentCidChanged(last) ==
  /\ mounted = "Author"
  /\ last # lastCommentCid
  /\ lastCommentCid' = last
  /\ UNCHANGED <<mounted, route, local, stores, votedCommentCids>>
  /\ UNCHANGED <<authorComments, accountComments, accountVotes, blockedCids, error, hasMore>>
  /\ Render(FALSE, pendingNavigation)

\* the router applies navigate(`/u/${authorAddress}/c/${lastCommentCid}`,
\* { replace: true }): the route parameter becomes the requested cid
NavigationApplied ==
  /\ mounted = "Author"
  /\ pendingNavigation # Undefined
  /\ commentCid' = pendingNavigation
  /\ view' = "all"
  /\ UNCHANGED <<authorAddress, paramsSortType, shortAddress, voteType>>
  /\ UNCHANGED <<mounted, source, local, stores, votedCommentCids>>
  /\ Render(FALSE, Undefined)

\* the user follows a link to another comment of the author
CommentCidChanged(cid) ==
  /\ mounted = "Author"
  /\ cid # commentCid
  /\ commentCid' = cid
  /\ UNCHANGED <<authorAddress, paramsSortType, view, shortAddress, voteType>>
  /\ UNCHANGED <<mounted, source, local, stores, votedCommentCids>>
  /\ Render(FALSE, pendingNavigation)

CidsOrUndefined == {Undefined, "c1", "c2"}

\* Author with its navigation context and the re-renders that leave it alone.
NextRedirect ==
  \/ \E addr \in {Undefined, "a"}, cid \in CidsOrUndefined, last \in CidsOrUndefined :
       MountAuthor(addr, cid, Undefined, "all", Undefined, FALSE, last)
  \/ Unmount
  \/ \E last \in CidsOrUndefined : LastCommentCidChanged(last)
  \/ NavigationApplied
  \/ \E cid \in CidsOrUndefined : CommentCidChanged(cid)
  \/ \E e \in Errors \cup {Undefined} : ErrorChanged(e)
  \/ HasMoreChanged
  \/ \E v \in Views : ViewChanged(v)

SpecRedirect == Init /\ [][NextRedirect]_vars

(* --------------------------- scroll events ----------------------------- *)
\* author.tsx setLastVirtuosoState: the window scroll listener of Author
AuthorScrolled(snap) ==
  \E l \in listeners :
    /\ l.component = "Author"
    /\ l.ref
    /\ authorVirtuosoStates' =
         IF AuthorSaves(snap) THEN Put(authorVirtuosoStates, l.key, snap)
                              ELSE authorVirtuosoStates
    /\ savedFor' =
         IF AuthorSaves(snap) THEN Put(savedFor, <<"Author", l.key>>, FeedPair)
                              ELSE savedFor
    /\ lastSnapshot' = [scrolled |-> TRUE, snapshot |-> snap]
    /\ UNCHANGED <<mounted, route, source, votedCommentCids, local, effects, fetches>>
    /\ UNCHANGED profileVirtuosoStates

\* profile.tsx setLastVirtuosoState: the window scroll listener of
\* VirtualizedCommentList, which is rendered when sortedComments is not empty
ProfileScrolled(snap) ==
  \E l \in listeners :
    /\ l.component = "VirtualizedCommentList"
    /\ l.ref
    /\ profileVirtuosoStates' =
         IF ProfileSaves(snap) THEN Put(profileVirtuosoStates, l.key, snap)
                               ELSE profileVirtuosoStates
    /\ savedFor' =
         IF ProfileSaves(snap)
         THEN Put(savedFor, <<"VirtualizedCommentList", l.key>>, FeedPair)
         ELSE savedFor
    /\ lastSnapshot' = [scrolled |-> TRUE, snapshot |-> snap]
    /\ UNCHANGED <<mounted, route, source, votedCommentCids, local, effects, fetches>>
    /\ UNCHANGED authorVirtuosoStates

\* a window scroll event that finds no listener with a list to ask: no
\* snapshot is computed
ScrolledUnheard ==
  /\ \A l \in listeners : ~l.ref
  /\ lastSnapshot' = [scrolled |-> TRUE, snapshot |-> UndefinedSnapshot]
  /\ UNCHANGED <<mounted, route, source, votedCommentCids, local, effects, fetches>>
  /\ UNCHANGED <<stores, savedFor>>

\* the route's sort parameter changes under the mounted feed
ParamsSortTypeChanged(ps) ==
  /\ mounted \in CommentFeeds
  /\ ps # paramsSortType
  /\ paramsSortType' = ps
  /\ UNCHANGED <<authorAddress, commentCid, view, shortAddress, voteType>>
  /\ UNCHANGED <<mounted, source, local, stores, votedCommentCids>>
  /\ Render(FALSE, pendingNavigation)

\* The two snapshot stores under mounts, unmounts and scroll events.
NextSnapshot ==
  \/ \E ps \in {Undefined, "new"} :
       MountAuthor("a", "c1", ps, "all", Undefined, FALSE, Undefined)
  \/ \E ps \in {Undefined, "new"} : MountLocal("Overview", "a", ps, Undefined, FALSE)
  \/ Unmount
  \/ AccountCommentAdded([cid |-> Len(accountComments) + 1, parentCid |-> Undefined,
                          timestamp |-> 1])
  \/ \E snap \in Snapshots : AuthorScrolled(snap)
  \/ \E snap \in Snapshots : ProfileScrolled(snap)

SpecSnapshot == Init /\ [][NextSnapshot]_vars

(* ------------------- listeners and restored snapshots ------------------ *)
\* a snapshot with one visible range
OneRange(top) == [defined |-> TRUE, hasRanges |-> TRUE,
                  ranges |-> <<[startIndex |-> 0, endIndex |-> 1]>>, scrollTop |-> top]

\* a snapshot with an empty list of ranges
NoRange == [defined |-> TRUE, hasRanges |-> TRUE, ranges |-> <<>>, scrollTop |-> 0]

\* what the scroll events of this specification compute
ScrollSnapshots == {OneRange(0), OneRange(MaxScrollTop), NoRange}

\* useAccountComments delivers the first comment of its collection
FirstAccountCommentAdded ==
  /\ accountComments = <<>>
  /\ AccountCommentAdded([cid |-> 1, parentCid |-> Undefined, timestamp |-> 1])

\* the sort parameter of the author route changes
AuthorSortTypeChanged(ps) ==
  /\ mounted = "Author"
  /\ ParamsSortTypeChanged(ps)

\* The snapshot stores with the listeners that write them and the lists that
\* restore from them: mounts, unmounts, a list that comes and goes with its
\* data, changes of the route's and of the dropdown's sort mode, scroll events.
NextRestore ==
  \/ \E ps \in {Undefined, "new"} :
       MountAuthor("a", "c1", ps, "all", Undefined, FALSE, Undefined)
  \/ MountLocal("Overview", "a", Undefined, Undefined, FALSE)
  \/ Unmount
  \/ FirstAccountCommentAdded
  \/ AccountCommentsCleared
  \/ \E ps \in {Undefined, "new"} : AuthorSortTypeChanged(ps)
  \/ \E i \in 1..Len(sortTypes) : SortChanged(sortTypes[i])
  \/ \E snap \in ScrollSnapshots : AuthorScrolled(snap)
  \/ \E snap \in ScrollSnapshots : ProfileScrolled(snap)
  \/ ScrolledUnheard

SpecRestore == Init /\ [][NextRestore]_vars

(* ------------------------------ load more ------------------------------ *)
\* Virtuoso reports that it rendered the end of its data: endReached
EndReached ==
  /\ mounted = "Author"
  /\ endReachedCount < MaxLoads
  /\ loadMoreCalls' = EndReachedHandler(loadMoreCalls)
  /\ endReachedCount' = endReachedCount + 1
  /\ lastSnapshot' = NoSnapshot
  /\ UNCHANGED <<mounted, route, source, votedCommentCids, local, stores, effects>>
  /\ UNCHANGED savedFor

\* Author with its data source, its route and its list.
NextLoad ==
  \/ \E v \in Views, hm \in BOOLEAN :
       MountAuthor("a", "c1", Undefined, v, Undefined, hm, Undefined)
  \/ Unmount
  \/ \E p \in {Undefined, "p"} :
       AuthorCommentLoaded([cid |-> Len(authorComments) + 1, parentCid |-> p,
                            timestamp |-> 1])
  \/ \E e \in {Undefined, "E1"} : ErrorChanged(e)
  \/ HasMoreChanged
  \/ \E v \in Views : ViewChanged(v)
  \/ \E ps \in {Undefined, "new"} : ParamsSortTypeChanged(ps)
  \/ AuthorScrolled(OneRange(0))
  \/ EndReached

SpecLoad == Init /\ [][NextLoad]_vars

(* ------------------------------ error log ------------------------------ *)
\* A remote and a local feed under every sequence of upstream errors.
NextLog ==
  \/ \E e \in Errors \cup {Undefined}, hm \in BOOLEAN :
       MountAuthor("a", "c1", Undefined, "all", e, hm, Undefined)
  \/ \E e \in Errors \cup {Undefined}, hm \in BOOLEAN :
       MountLocal("Overview", "a", Undefined, e, hm)
  \/ Unmount
  \/ AuthorCommentLoaded([cid |-> Len(authorComments) + 1, parentCid |-> Undefined,
                          timestamp |-> 1])
  \/ AuthorCommentsCleared
  \/ AccountCommentAdded([cid |-> Len(accountComments) + 1, parentCid |-> Undefined,
                          timestamp |-> 1])
  \/ AccountCommentsCleared
  \/ \E e \in Errors \cup {Undefined} : ErrorChanged(e)
  \/ HasMoreChanged

SpecLog == Init /\ [][NextLog]_vars

(* ============================== claims ================================= *)

(* ---- C1 ---- *)
\* C1: in the comment feeds (Author, Overview, Comments, Submitted) the gate
\* is Shown after an evaluation iff some evaluation saw an error together with
\* an empty projection and no evaluation since saw a non-empty projection; in
\* particular an evaluation with an error and an empty projection leaves it Shown.
C1_GateFollowsEvaluations ==
  mounted \in CommentFeeds =>
    /\ shouldShowErrorToUser <=> armed
    /\ (error # Undefined /\ Len(Projection) = 0) => shouldShowErrorToUser

\* an errored Comments feed whose raw collection holds only posts shows the error
C1_Witness ==
  /\ mounted = "Comments"
  /\ accountComments # <<>>
  /\ error # Undefined
  /\ Len(Projection) = 0
  /\ shouldShowErrorToUser

(* ---- C2 ---- *)
\* C2: in every feed that has a gate, after every evaluation a Shown gate
\* implies an empty projection: a projection with count > 0 leaves the gate
\* Hidden whether or not an error is still present.
C2_ShownOnlyWhenEmpty ==
  (mounted \in GateFeeds /\ shouldShowErrorToUser) => Len(Projection) = 0

\* the error is still present, the projection is not empty, the gate is Hidden
C2_Witness ==
  /\ mounted = "Overview"
  /\ error # Undefined
  /\ Len(Projection) = 1
  /\ ~shouldShowErrorToUser

(* ---- C3 ---- *)
\* C3: once the gate of a feed instance is Shown it stays Shown across every
\* later evaluation that sees an empty projection, with the error still present
\* or cleared.
C3_ShownPersistsWhileEmpty ==
  [][(/\ mounted \in GateFeeds
      /\ mounted' = mounted
      /\ shouldShowErrorToUser
      /\ Len(Projection') = 0) => shouldShowErrorToUser']_vars

\* the error has cleared, the projection is still empty, the gate is still Shown
C3_Witness ==
  /\ mounted = "Submitted"
  /\ error = Undefined
  /\ Len(Projection) = 0
  /\ shouldShowErrorToUser

(* ---- C4 ---- *)
\* C4: in VotedComments an evaluation with an error present and an empty
\* visible page leaves the gate Shown.
C4_VotedGateShown ==
  (mounted = "VotedComments" /\ error # Undefined /\ Len(Projection) = 0)
    => shouldShowErrorToUser

(* ---- C5 ---- *)
\* a snapshot with no visible range: undefined, no ranges field, or no range
Degenerate(snap) == ~snap.defined \/ ~snap.hasRanges \/ Len(snap.ranges) = 0

\* C5: in both snapshot stores every stored entry has a non-empty visible
\* range, and a scroll event whose computed snapshot has an empty or missing
\* range list leaves the stores unchanged.
C5_SnapshotNonDegenerate ==
  [][/\ \A k \in DOMAIN authorVirtuosoStates' : ~Degenerate(authorVirtuosoStates'[k])
     /\ \A k \in DOMAIN profileVirtuosoStates' : ~Degenerate(profileVirtuosoStates'[k])
     /\ (lastSnapshot'.scrolled /\ Degenerate(lastSnapshot'.snapshot))
          => stores' = stores]_vars

\* both stores hold a snapshot and the last scroll event computed a snapshot
\* with an empty list of ranges
C5_Witness ==
  /\ DOMAIN authorVirtuosoStates # {}
  /\ ProfileKey(shortAddress, paramsSortType) \in DOMAIN profileVirtuosoStates
  /\ mounted = "Overview"
  /\ lastSnapshot.scrolled
  /\ lastSnapshot.snapshot.hasRanges
  /\ lastSnapshot.snapshot.ranges = <<>>

(* ---- C6 ---- *)
\* C6: a redirect request to /u/<authorAddress>/c/<lastCommentCid> is emitted
\* exactly once when Author mounts with, or changes to, an (authorAddress,
\* lastCommentCid, commentCid) in which all three are present and the two cids
\* differ; a re-render with the same three values emits none, and none is
\* emitted when the cids are equal (the navigation context has adopted the
\* canonical cid) or one of the three is absent.
C6_OneRedirectPerDivergence ==
  [][mounted' = "Author" =>
       LET isMount == mounted # "Author"
           before == IF isMount THEN <<>> ELSE redirects
           divergenceArose ==
             /\ isMount \/ RedirectDeps' # RedirectDeps
             /\ authorAddress' # Undefined
             /\ lastCommentCid' # Undefined
             /\ commentCid' # Undefined
             /\ lastCommentCid' # commentCid'
       IN IF divergenceArose
          THEN redirects' = Append(before, "/u/" \o authorAddress' \o "/c/" \o lastCommentCid')
          ELSE redirects' = before]_vars

\* Author has rendered again with the divergence unchanged and holds the one
\* redirect request that the divergence produced
C6_Witness ==
  /\ mounted = "Author"
  /\ rerendered
  /\ RedirectWanted(authorAddress, lastCommentCid, commentCid)
  /\ redirects = <<RedirectTarget(authorAddress, lastCommentCid)>>

(* ---- C7 ---- *)
\* sequence[(p-1)*pageSize : p*pageSize]
PageWindow(seq, p) ==
  [i \in 1..Max(0, Min(Len(seq), p * pageSize) - (p - 1) * pageSize)
     |-> seq[(p - 1) * pageSize + i]]

\* sequence[0 : p*pageSize]
PagePrefix(seq, p) == [i \in 1..Min(Len(seq), p * pageSize) |-> seq[i]]

\* C7 as stated: in the vote-derived feed and in the hidden-item feed the
\* items displayed at page p are exactly sequence[(p-1)*10 : p*10].
C7_WindowInBothFeeds ==
  /\ mounted = "VotedComments" => Projection = PageWindow(votedCommentCids, currentPage)
  /\ mounted = "HiddenComments" => Projection = PageWindow(blockedCids, currentPage)

\* C7 amended: the vote-derived feed displays sequence[(p-1)*10 : p*10] at
\* page p; the hidden-item feed displays the first p*10 identifiers,
\* sequence[0 : p*10].
C7_WindowVotedPrefixHidden ==
  /\ mounted = "VotedComments" => Projection = PageWindow(votedCommentCids, currentPage)
  /\ mounted = "HiddenComments" => Projection = PagePrefix(blockedCids, currentPage)

\* 25 voted identifiers: page 3 shows the last 5 of them
C7_Witness ==
  /\ mounted = "VotedComments"
  /\ Len(votedCommentCids) = 25
  /\ currentPage = 3
  /\ Len(Projection) = 5
  /\ Projection[1] = votedCommentCids[21]

(* ---- C8 ---- *)
\* the full filtered identifier sequence of the mounted paged feed
FullSequence == IF mounted = "VotedComments" THEN votedCommentCids ELSE blockedCids

\* C8: in the paged feeds pageIndex >= 1 always, hasMore is true exactly when
\* pageIndex * pageSize < totalFilteredCount, 'previous' is offered only when
\* pageIndex > 1 and 'next' only when hasMore.
C8_PaginationCursor ==
  mounted \in PagedFeeds =>
    /\ currentPage >= 1
    /\ PagedHasMore <=> currentPage * pageSize < Len(FullSequence)
    /\ PreviousOffered(currentPage, PagedHasMore) => currentPage > 1
    /\ NextOffered(currentPage, PagedHasMore) => PagedHasMore

\* the hidden-item feed on its last page, reached by 'next'
C8_Witness ==
  /\ mounted = "HiddenComments"
  /\ currentPage = 3
  /\ ~PagedHasMore
  /\ PreviousOffered(currentPage, PagedHasMore)

(* ---- C9 ---- *)
\* C9: in every comment feed the loading indicator is shown iff hasMore, and
\* 'nothing found' is shown iff the projected count is 0 and hasMore is false.
C9_FooterAndEmptyState ==
  mounted \in CommentFeeds =>
    /\ LoadingShown <=> hasMore
    /\ NothingFoundShown <=> (Len(Projection) = 0 /\ ~hasMore)

(* ---- C10 ---- *)
\* s is ordered by timestamp: descending for "new", ascending otherwise
OrderedByTimestamp(s, st) ==
  \A i, j \in 1..Len(s) :
    i < j => IF st = "new" THEN s[i].timestamp >= s[j].timestamp
                           ELSE s[i].timestamp <= s[j].timestamp

\* the defined entries of a sequence of comments
Defined(s) == SelectSeq(s, LAMBDA c : c # UndefinedComment)

\* the entries of the raw collection that the mounted local feed is about
Selected ==
  {accountComments[i] : i \in
     {k \in 1..Len(accountComments) :
        \/ mounted = "Overview"
        \/ mounted = "Comments" /\ accountComments[k].parentCid # Undefined
        \/ mounted = "Submitted" /\ accountComments[k].parentCid = Undefined}}

\* C10 as stated: in every comment feed, author feeds included, the sequence
\* handed to the renderer is ordered by timestamp in the direction of the sort
\* mode (for the author feed: in one of the two directions).
C10_EveryFeedSorted ==
  /\ mounted \in LocalFeeds => OrderedByTimestamp(Projection, sortType)
  /\ mounted = "Author" => \/ OrderedByTimestamp(Defined(Projection), "new")
                           \/ OrderedByTimestamp(Defined(Projection), "old")

\* C10 amended: in the local-account comment feeds (Overview, Comments,
\* Submitted), for any raw collection order, the sequence handed to the renderer
\* holds exactly the entries of the feed kind, ordered by timestamp descending
\* under newest-first and ascending under oldest-first.
C10_LocalFeedsSorted ==
  mounted \in LocalFeeds =>
    /\ OrderedByTimestamp(Projection, sortType)
    /\ {Projection[i] : i \in 1..Len(Projection)} = Selected
    /\ Len(Projection) = Cardinality(Selected)

\* replies-only, oldest-first, from a raw collection in the opposite order
\* with a post in between
C10_Witness ==
  /\ mounted = "Comments"
  /\ sortType = "old"
  /\ Len(accountComments) = 3
  /\ accountComments[1].parentCid # Undefined /\ accountComments[1].timestamp = 2
  /\ accountComments[2].parentCid = Undefined
  /\ accountComments[3].parentCid # Undefined /\ accountComments[3].timestamp = 1
  /\ Len(Projection) = 2
  /\ Projection[1].timestamp = 1

(* ---- C11 ---- *)
\* the entries of a sequence
Range(s) == {s[i] : i \in 1..Len(s)}

\* the 'all', posts-only and replies-only projections of the mounted feed's
\* raw collection
AllProjection ==
  IF mounted = "Author" THEN VirtuosoData("all", authorComments)
                        ELSE OverviewSortedComments(accountComments, sortType)

PostsProjection ==
  IF mounted = "Author" THEN VirtuosoData("submitted", authorComments)
                        ELSE SubmittedSortedComments(accountComments, sortType)

RepliesProjection ==
  IF mounted = "Author" THEN VirtuosoData("comments", authorComments)
                        ELSE CommentsSortedComments(accountComments, sortType)

\* the entries e of 'all' are split by the presence of the parent identifier
SplitByParent(entries) ==
  /\ \A e \in entries : (e \in Range(PostsProjection)) # (e \in Range(RepliesProjection))
  /\ \A e \in entries : e \in Range(RepliesProjection) <=> e.parentCid # Undefined

\* C11 as stated: for every raw collection each entry of the 'all' projection
\* is in exactly one of the posts-only and replies-only projections, decided by
\* the presence of its parent identifier, and the union of the two equals the
\* item set of 'all'.
C11_FilterPartition ==
  mounted \in CommentFeeds =>
    /\ SplitByParent(Range(AllProjection))
    /\ Range(PostsProjection) \cup Range(RepliesProjection) = Range(AllProjection)

\* C11 amended: each defined entry of the 'all' projection is in exactly one of
\* the posts-only and replies-only projections, decided by the presence of its
\* parent identifier, and the union of the two equals the set of defined entries
\* of 'all'; an undefined entry of the remote author's collection is in 'all'
\* and in neither of the two.
C11_DefinedEntriesPartition ==
  mounted \in CommentFeeds =>
    /\ SplitByParent(Range(AllProjection) \ {UndefinedComment})
    /\ Range(PostsProjection) \cup Range(RepliesProjection)
         = Range(AllProjection) \ {UndefinedComment}
    /\ UndefinedComment \notin Range(PostsProjection) \cup Range(RepliesProjection)
    /\ mounted \in LocalFeeds => UndefinedComment \notin Range(AllProjection)

\* the author's collection holds an undefined entry, a post and a reply
C11_Witness ==
  /\ mounted = "Author"
  /\ UndefinedComment \in Range(AllProjection)
  /\ Len(PostsProjection) = 1
  /\ Len(RepliesProjection) = 1
  /\ Len(AllProjection) = 3

(* ---- C12 ---- *)
\* C12: the gate starts Hidden and a step that ends without an error never
\* takes it from Hidden to Shown, so that it is Hidden for as long as no error
\* has been present; in such a state with no items and hasMore false the feed
\* shows 'nothing found' (and no error).
C12_NoErrorNoBanner ==
  [][(/\ mounted' \in GateFeeds
      /\ error' = Undefined
      /\ mounted' # mounted \/ ~shouldShowErrorToUser)
       => /\ ~shouldShowErrorToUser'
          /\ (Len(Projection') = 0 /\ ~hasMore') => NothingFoundShown']_vars

\* an Author that has rendered more than once and never had an error, with no
\* items and nothing more to load
C12_Witness ==
  /\ mounted = "Author"
  /\ rerendered
  /\ errorLog = <<>>
  /\ error = Undefined
  /\ authorComments = <<>>
  /\ ~hasMore
  /\ ~shouldShowErrorToUser
  /\ NothingFoundShown

(* ---- C13 ---- *)
\* the entries of store after a step in which the mounted feed's scroll event
\* computed snap: snap under the feed's key if it has a range, all else as before
AfterScroll(store, key, snap) ==
  [k \in DOMAIN store \cup (IF Degenerate(snap) THEN {} ELSE {key}) |->
     IF k = key /\ ~Degenerate(snap) THEN snap ELSE store[k]]

\* a list is mounted by the step: with its feed, or when its feed gets items
ListMounts == HasVirtuoso' /\ (mounted' # mounted \/ ~HasVirtuoso)

\* C13: a scroll event of the mounted feed that computes a snapshot with a
\* range puts it under the feed's (subject, sort-mode) key, over whatever an
\* earlier instance or event saved there, and leaves every other entry of both
\* stores as it was; no other step changes or deletes an entry; a list that
\* mounts reads the entry under its feed's key, or nothing if none was saved.
C13_LastWriteWins ==
  [][/\ IF lastSnapshot'.scrolled /\ mounted = "Author"
        THEN /\ authorVirtuosoStates' =
                  AfterScroll(authorVirtuosoStates,
                              AuthorKey(authorAddress, paramsSortType),
                              lastSnapshot'.snapshot)
             /\ profileVirtuosoStates' = profileVirtuosoStates
        ELSE IF lastSnapshot'.scrolled /\ mounted \in LocalFeeds
        THEN /\ profileVirtuosoStates' =
                  AfterScroll(profileVirtuosoStates,
                              ProfileKey(shortAddress, paramsSortType),
                              lastSnapshot'.snapshot)
             /\ authorVirtuosoStates' = authorVirtuosoStates
        ELSE stores' = stores
     /\ ListMounts =>
          LastVirtuosoState' =
            IF mounted' = "Author"
            THEN IF StoreKey' \in DOMAIN authorVirtuosoStates
                 THEN authorVirtuosoStates[StoreKey'] ELSE UndefinedSnapshot
            ELSE IF StoreKey' \in DOMAIN profileVirtuosoStates
                 THEN profileVirtuosoStates[StoreKey'] ELSE UndefinedSnapshot]_vars

\* an Author that has just mounted reads the snapshot that was saved last
\* under its key, while the other key holds another snapshot
C13_Witness ==
  /\ mounted = "Author"
  /\ ~rerendered
  /\ ~lastSnapshot.scrolled
  /\ paramsSortType = "new"
  /\ LastVirtuosoState = OneRange(MaxScrollTop)
  /\ AuthorKey(authorAddress, Undefined) \in DOMAIN authorVirtuosoStates
  /\ authorVirtuosoStates[AuthorKey(authorAddress, Undefined)] = OneRange(0)
  /\ DOMAIN profileVirtuosoStates # {}

(* ---- C15 ---- *)
\* the entries of a store that a step created or changed
Written(before, after) ==
  {k \in DOMAIN after : k \notin DOMAIN before \/ after[k] # before[k]}

\* C15: the only scroll listener on the window is the one of the mounted list,
\* with the list's current key: an unmount, and a change of the key, take the
\* old listener away.  So a step writes a store entry only while the list of
\* one feed is mounted before and after it, and only under that feed's key;
\* scroll events after the unmount write nothing, and the stores hold only
\* snapshots with a range.
C15_UnmountStopsWrites ==
  [][/\ listeners' = (IF HasVirtuoso' THEN {SetLastVirtuosoState'} ELSE {})
     /\ \A k \in Written(authorVirtuosoStates, authorVirtuosoStates') :
          /\ mounted = "Author" /\ mounted' = "Author"
          /\ k = StoreKey /\ k = StoreKey'
     /\ \A k \in Written(profileVirtuosoStates, profileVirtuosoStates') :
          /\ mounted \in LocalFeeds /\ mounted' = mounted
          /\ HasVirtuoso /\ HasVirtuoso'
          /\ k = StoreKey /\ k = StoreKey'
     /\ \A k \in DOMAIN authorVirtuosoStates' : ~Degenerate(authorVirtuosoStates'[k])
     /\ \A k \in DOMAIN profileVirtuosoStates' : ~Degenerate(profileVirtuosoStates'[k])]_vars

\* the window scrolled after the feed was unmounted: no listener is left and
\* the entries the feed saved are still there
C15_Witness ==
  /\ mounted = "none"
  /\ lastSnapshot.scrolled
  /\ listeners = {}
  /\ DOMAIN authorVirtuosoStates # {}
  /\ DOMAIN profileVirtuosoStates # {}

(* ---- C14 ---- *)
\* the message a feed instance logged last
LastLogged(log) == IF log = <<>> THEN Undefined ELSE log[Len(log)]

\* C14 as stated: within one feed instance each distinct error message is
\* logged at most once.
C14_EachMessageOnce ==
  \A i, j \in 1..Len(errorLog) : i # j => errorLog[i] # errorLog[j]

\* C14 amended: within one feed instance an error is logged exactly when its
\* message differs from the message the instance logged last: renders that
\* repeat the message, or that see no error in between, add no entry, and a
\* message that comes back after another one is logged again.
C14_LoggedWhenMessageChanges ==
  [][mounted' \in GateFeeds =>
       LET before == IF mounted' # mounted THEN <<>> ELSE errorLog
       IN errorLog' = IF error' # Undefined /\ error' # LastLogged(before)
                      THEN Append(before, error')
                      ELSE before]_vars

\* the errors E1, E2, E1: E1 is in the log twice
C14_Witness ==
  /\ mounted = "Overview"
  /\ errorLog = <<"E1", "E2", "E1">>

(* ---- C20 ---- *)
\* where the store of the list that the step mounts keeps its history
MountSlot == <<Holder', StoreKey'>>

\* C20 as stated: a snapshot saved while a feed showed subject s1 under sort
\* mode m1 is never handed to a list that mounts for another pair (s2, m2): the
\* key separates the pairs and follows the sort mode applied to the feed.
C20_KeyIsolation ==
  [][(ListMounts /\ MountSlot \in DOMAIN savedFor)
       => savedFor[MountSlot] = FeedPair']_vars

(* ---- C16 ---- *)
\* C16: in the author feed loadMore() is called once for each reached-end
\* notification of the list and at no other time: a step calls it (once) iff
\* it is such a notification, and a step that changes the feed kind, the sort
\* mode, the error or the data, or that is a scroll event, calls nothing.
C16_LoadMorePerNotification ==
  [][mounted' = "Author" =>
       LET calls == loadMoreCalls' - (IF mounted' # mounted THEN 0 ELSE loadMoreCalls)
           notifications ==
             endReachedCount' - (IF mounted' # mounted THEN 0 ELSE endReachedCount)
       IN /\ calls = notifications
          /\ calls \in {0, 1}
          /\ (\/ view' # view
              \/ paramsSortType' # paramsSortType
              \/ error' # error
              \/ authorComments' # authorComments
              \/ hasMore' # hasMore
              \/ lastSnapshot'.scrolled) => calls = 0]_vars

\* two notifications, two calls, on a replies-only feed that has data, an
\* error and a saved snapshot
C16_Witness ==
  /\ mounted = "Author"
  /\ endReachedCount = MaxLoads
  /\ loadMoreCalls = MaxLoads
  /\ view = "comments"
  /\ Len(authorComments) > 0
  /\ error # Undefined
  /\ DOMAIN authorVirtuosoStates # {}

(* ---- C17 ---- *)
\* the place of x in the collection s (the entries of a collection differ)
PlaceIn(s, x) == CHOOSE k \in 1..Len(s) : s[k] = x

\* the vote of the collection that refers to cid
VoteFor(cid) == CHOOSE k \in 1..Len(accountVotes) : accountVotes[k].commentCid = cid

\* C17: in every sorted projection two items with equal timestamps are in the
\* order they have in the input collection, under newest-first and under
\* oldest-first: the comments of the local-account feeds and the votes behind
\* the identifiers of the vote-derived feed.
C17_SortStable ==
  /\ mounted \in LocalFeeds =>
       \A i, j \in 1..Len(Projection) :
         (i < j /\ Projection[i].timestamp = Projection[j].timestamp)
           => PlaceIn(accountComments, Projection[i]) < PlaceIn(accountComments, Projection[j])
  /\ mounted = "VotedComments" =>
       LET place == [i \in 1..Len(votedCommentCids) |-> VoteFor(votedCommentCids[i])]
       IN \A i, j \in 1..Len(votedCommentCids) :
            (i < j /\ accountVotes[place[i]].timestamp = accountVotes[place[j]].timestamp)
              => place[i] < place[j]

\* oldest-first: the first and the third comment tie behind the second
C17_Witness ==
  /\ mounted = "Overview"
  /\ sortType = "old"
  /\ Len(accountComments) = 3
  /\ accountComments[1].timestamp = 2
  /\ accountComments[2].timestamp = 1
  /\ accountComments[3].timestamp = 2
  /\ Projection = <<accountComments[2], accountComments[1], accountComments[3]>>

(* ---- C18 ---- *)
\* what decides the projection of the mounted feed
ProjectionInputs ==
  <<mounted, view, voteType, sortType, currentPage,
    authorComments, accountComments, accountVotes, blockedCids>>

\* C18: computing a projection leaves the raw collection as the data source
\* supplied it: a change of the sort mode, back and forth, changes no raw
\* collection, and when the data source appends an entry the entries before it
\* keep their content and order (the k-th entry of a raw collection is the
\* k-th the data source delivered); the same raw collection, feed kind and sort
\* mode give the same ordered output.
C18_ProjectionPure ==
  [][mounted' = mounted =>
       /\ sortType' # sortType =>
            /\ accountComments' = accountComments
            /\ accountVotes' = accountVotes
       /\ Len(accountComments') = Len(accountComments) + 1 =>
            SubSeq(accountComments', 1, Len(accountComments)) = accountComments
       /\ Len(accountVotes') = Len(accountVotes) + 1 =>
            SubSeq(accountVotes', 1, Len(accountVotes)) = accountVotes
       /\ \A k \in 1..Len(accountComments') : accountComments'[k].cid = k
       /\ \A k \in 1..Len(accountVotes') : accountVotes'[k].commentCid = k
       /\ ProjectionInputs' = ProjectionInputs => Projection' = Projection]_vars

\* oldest-first over a collection that arrived newest-first: the projection
\* is the reverse of the raw collection, which is as it arrived
C18_Witness ==
  /\ mounted = "Submitted"
  /\ sortType = "old"
  /\ Len(accountComments) = 2
  /\ accountComments[1].cid = 1 /\ accountComments[1].timestamp = 2
  /\ accountComments[2].cid = 2 /\ accountComments[2].timestamp = 1
  /\ Projection = <<accountComments[2], accountComments[1]>>

(* ---- C19 ---- *)
\* the votes whose sign is the feed's voteType
VotesOfType == {k \in 1..Len(accountVotes) : accountVotes[k].vote = voteType}

\* C19: the full identifier sequence of the vote-derived feed has one entry
\* for each vote whose sign equals voteType, the identifier that vote refers
\* to, none for a vote of the other sign, and is ordered by the votes'
\* timestamps: descending under newest-first, ascending under oldest-first.
C19_VoteDerivedSequence ==
  mounted = "VotedComments" =>
    /\ Len(votedCommentCids) = Cardinality(VotesOfType)
    /\ Range(votedCommentCids) = {accountVotes[k].commentCid : k \in VotesOfType}
    /\ \A i \in 1..Len(votedCommentCids) - 1 :
         LET a == accountVotes[VoteFor(votedCommentCids[i])]
             b == accountVotes[VoteFor(votedCommentCids[i + 1])]
         IN IF sortType = "new" THEN a.timestamp >= b.timestamp
                                ELSE a.timestamp <= b.timestamp

\* the downvoted feed, oldest-first, over a collection with votes of both
\* signs and downvotes of two timestamps
C19_Witness ==
  /\ mounted = "VotedComments"
  /\ voteType = -1
  /\ sortType = "old"
  /\ \E k \in 1..Len(accountVotes) : accountVotes[k].vote = 1
  /\ Len(votedCommentCids) >= 3
  /\ accountVotes[VoteFor(votedCommentCids[1])].timestamp
       < accountVotes[VoteFor(votedCommentCids[Len(votedCommentCids)])].timestamp
  /\ \E i \in 1..Len(votedCommentCids) - 1 :
       VoteFor(votedCommentCids[i]) > VoteFor(votedCommentCids[i + 1])

(* ---- C21 ---- *)
\* C21: in the vote-derived feed, whatever pages were selected, sorts chosen
\* and vote collections delivered, a non-empty full identifier sequence has a
\* non-empty displayed page, and 'nothing found' is on screen only when the
\* full identifier sequence is empty.
C21_PageStaysInRange ==
  mounted = "VotedComments" =>
    /\ votedCommentCids # <<>> => Len(Projection) > 0
    /\ NothingFoundShown => votedCommentCids = <<>>

====
